---- MODULE Spec2Model ----
(***************************************************************************)
(* Model of the notification service of civitai                            *)
(* (src/src/server/services/notification.service.ts): createNotification,  *)
(* getUserNotifications, getUserNotificationCount, markNotificationsRead   *)
(* and the notification settings toggles, over the PendingNotification,    *)
(* UserNotification, Notification and UserNotificationSettings tables and  *)
(* the per-user Count Cache.                                               *)
(*                                                                         *)
(* Every `await` that touches shared state (a table or the cache) is one   *)
(* atomic step of the calling request; code between two such steps only    *)
(* touches the request's locals and is folded into the step before it.     *)
(***************************************************************************)
EXTENDS Integers, Sequences, FiniteSets, TLC

\* ------------------------------------------------------------- bounds
MaxUser == 2      \* user ids are 1..MaxUser
MaxLen  == 2      \* longest `userIds` argument of createNotification
MaxRow  == 2      \* UserNotification row ids are 1..MaxRow
MaxTime == 1      \* createdAt is in 0..MaxTime, in months; NOW() is MaxTime

\* ------------------------------------------------------------- domains
Users      == 1..MaxUser
NoUser     == 0                       \* `userId` absent (undefined is falsy, as is 0)
Procs      == {"a", "b"}              \* two concurrent request handlers
Keys       == {"k1", "k2"}
Types      == {"comment", "like"}
Categories == {"Comment", "Update"}   \* NotificationCategory
NoCategory == "none"                  \* `category` absent
Details    == {"d1", "d2"}
Month      == 1                       \* interval '1 month'
Now        == MaxTime                 \* NOW()

RECURSIVE SeqsUpTo(_, _)
SeqsUpTo(S, n) ==
  IF n = 0 THEN {<<>>}
  ELSE LET shorter == SeqsUpTo(S, n - 1)
       IN  shorter \cup {Append(s, x) : s \in {t \in shorter : Len(t) = n - 1}, x \in S}

Range(s) == {s[i] : i \in 1..Len(s)}

VARIABLES
  settings,   \* UserNotificationSettings: set of <<userId, type>> (opt-out rows)
  pending,    \* PendingNotification: set of rows, at most one per key
  rows,       \* UserNotification: [id -> [userId, notificationId, viewed, createdAt]]
  cache,      \* Count Cache: [userId -> [present, counts]]
  enq,        \* createNotification calls in flight, per handler
  req,        \* read / count / mark-read calls in flight, per handler
  hist        \* history of markNotificationsRead, per row id

vars == <<settings, pending, rows, cache, enq, req, hist>>

\* ------------------------------------------------ request records
NoCursor == -1                          \* `cursor` absent
DEFAULT_PAGE_SIZE == 20

\* A handler can take a request when its last call has returned or thrown.
Returned == {"idle", "done", "failed"}

ReqIdle ==
  [pc |-> "idle", op |-> "none", userId |-> 1, id |-> 1, all |-> FALSE,
   category |-> NoCategory, unread |-> FALSE, count |-> FALSE,
   limit |-> DEFAULT_PAGE_SIZE, cursor |-> NoCursor,
   rowCount |-> 0, catData |-> <<>>, result |-> {}, items |-> <<>>]

\* ------------------------------------------------ createNotification
\* Lines 33-34: `userIds` defaults to [], then a truthy `userId` is pushed onto it.
Normalize(userId, userIds) ==
  IF userId # NoUser THEN Append(userIds, userId) ELSE userIds

\* Lines 37-39: the user ids of the settings rows found for the candidate users
\* and this notification's type.
FindOptOuts(userIds, type) ==
  {u \in Range(userIds) : <<u, type>> \in settings}

\* Line 44: the ids of the two fetched lists, as one set.
BlockedIds(blockedUsers, blockedByUsers) == blockedUsers \cup blockedByUsers

FilterTargetsOptOutOnly(userIds, optOut, blocked) ==
  SelectSeq(userIds, LAMBDA x : x \notin optOut)

\* Lines 45-47: userIds.filter(x => !settings.some(y => y.userId === x) && !blocked.includes(x))
RECURSIVE FilterTargets(_, _, _)
FilterTargets(userIds, optOut, blocked) ==
  IF userIds = <<>> THEN <<>>
  ELSE LET x    == Head(userIds)
           rest == FilterTargets(Tail(userIds), optOut, blocked)
       IN  IF x \notin optOut /\ x \notin blocked THEN <<x>> \o rest ELSE rest

\* Line 58: JSON.stringify(details)::jsonb, the stored form of the payload.
JsonStringify(details) == <<"jsonb", details>>

\* Lines 52-58: the row of the INSERT.
PendingRow(c) ==
  [key |-> c.key, type |-> c.type, category |-> c.category,
   users |-> c.targets, details |-> JsonStringify(c.details)]

InsertPendingOverwrite(table, row) ==
  {r \in table : r.key # row.key} \cup {row}

\* Lines 51-60: INSERT ... ON CONFLICT DO NOTHING (key is the primary key).
InsertPending(table, row) ==
  IF \E r \in table : r.key = row.key THEN table ELSE table \cup {row}

IsEmptyNever(list) == FALSE

\* Lines 35 and 49: `if (list.length === 0) return;`
IsEmpty(list) == Len(list) = 0

EnqIdle ==
  [pc |-> "idle", key |-> "k1", type |-> "comment", category |-> "Comment",
   details |-> "d1", userIds |-> <<>>, optOut |-> {}, blocked |-> {},
   targets |-> <<>>, outcome |-> "none"]

\* The (type, category, details) payloads producers send.
Payloads == [type : Types, category : Categories, details : Details]

\* Lines 33-39: normalise the targets and return on an empty list, else read
\* the opt-out rows of the candidates for this type.
CN_Start(p, keys, payloads, userIdArgs, userIdsArgs) ==
  /\ enq[p].pc \in {"idle", "done"} /\ req[p].pc \in Returned
  /\ \E key \in keys, pl \in payloads, userId \in userIdArgs, userIds \in userIdsArgs :
       LET merged == Normalize(userId, userIds)
           call   == [EnqIdle EXCEPT !.key = key, !.type = pl.type,
                        !.category = pl.category, !.details = pl.details,
                        !.userIds = merged]
       IN  IF IsEmpty(merged)
           THEN enq' = [enq EXCEPT ![p] =
                          [call EXCEPT !.pc = "done", !.outcome = "noop"]]
           ELSE enq' = [enq EXCEPT ![p] =
                          [call EXCEPT !.pc = "filter",
                                       !.optOut = FindOptOuts(merged, pl.type)]]
  /\ req' = [req EXCEPT ![p] = ReqIdle]
  /\ UNCHANGED <<settings, pending, rows, cache, hist>>

\* Lines 40-60: fetch the two blocked lists (whatever the relationship cache
\* holds), filter the targets, return on an empty list, else insert.
CN_Write(p) ==
  /\ enq[p].pc = "filter"
  /\ \E blockedUsers \in SUBSET Users, blockedByUsers \in SUBSET Users :
       LET blocked == BlockedIds(blockedUsers, blockedByUsers)
           targets == FilterTargets(enq[p].userIds, enq[p].optOut, blocked)
           call    == [enq[p] EXCEPT !.pc = "done", !.blocked = blocked,
                                     !.targets = targets]
       IN  IF IsEmpty(targets)
           THEN /\ enq' = [enq EXCEPT ![p] = [call EXCEPT !.outcome = "noop"]]
                /\ pending' = pending
           ELSE /\ pending' = InsertPending(pending, PendingRow(call))
                /\ enq' = [enq EXCEPT ![p] =
                             [call EXCEPT !.outcome =
                                IF pending' = pending THEN "conflict" ELSE "inserted"]]
  /\ UNCHANGED <<settings, rows, cache, req, hist>>

\* ------------------------------------------- notification settings
\* Lines 174-184: INSERT one opt-out row per type, ON CONFLICT DO NOTHING.
CreateUserNotificationSetting ==
  /\ \E userId \in Users, type \in (SUBSET Types) \ {{}} :
       settings' = settings \cup {<<userId, t>> : t \in type}
  /\ UNCHANGED <<pending, rows, cache, enq, req, hist>>

\* Lines 186-191: deleteMany of the user's opt-out rows of the given types.
DeleteUserNotificationSetting ==
  /\ \E userId \in Users, type \in (SUBSET Types) \ {{}} :
       settings' = settings \ {<<userId, t>> : t \in type}
  /\ UNCHANGED <<pending, rows, cache, enq, req, hist>>

\* ------------------------------------------------------ the store
RowIds   == 1..MaxRow
NotifIds == {1, 2}
Times    == 0..MaxTime

\* Notification: the shared row a UserNotification refers to; here its category.
Notification ==
  [n \in NotifIds |-> [category |-> IF n = 1 THEN "Comment" ELSE "Update"]]

\* A UserNotification table as the fan-out job leaves it: every row unviewed.
FreshTables ==
  [RowIds -> [userId : Users, notificationId : NotifIds,
              viewed : {FALSE}, createdAt : Times]]

NoEntry == [present |-> FALSE, counts |-> {}]

CategoryOfRow(t, i) == Notification[t[i].notificationId].category

\* --------------------------------------------------- the Count Cache
\* notificationCache.getUser: the user's entry, if any.
CacheGetUser(userId) == cache[userId]

\* notificationCache.setUser: replace the user's whole mapping.
CacheSetUser(c, userId, counts) ==
  [c EXCEPT ![userId] = [present |-> TRUE, counts |-> counts]]

\* notificationCache.bustUser: delete the user's entry.
CacheBustUser(c, userId) == [c EXCEPT ![userId] = NoEntry]

\* notificationCache.clearCategory: delete one category of the user's mapping.
CacheClearCategory(c, userId, category) ==
  IF c[userId].present
  THEN [c EXCEPT ![userId].counts = {e \in @ : e.category # category}]
  ELSE c

\* notificationCache.decrementUser: atomic decrement by one of one category;
\* nothing to decrement without an entry or without that category.
CacheDecrementUser(c, userId, category) ==
  IF c[userId].present
  THEN [c EXCEPT ![userId].counts =
          {IF e.category = category THEN [e EXCEPT !.count = @ - 1] ELSE e : e \in @}]
  ELSE c

\* -------------------------------------------- getUserNotificationCount
CountMatchesNoWindow(t, userId, unread, category) ==
  {i \in RowIds :
     /\ t[i].userId = userId
     /\ unread => ~t[i].viewed
     /\ category # NoCategory => CategoryOfRow(t, i) = category}

\* Lines 110-114: the WHERE clause of the aggregation.
CountMatches(t, userId, unread, category) ==
  {i \in RowIds :
     /\ t[i].userId = userId
     /\ IF unread THEN ~t[i].viewed ELSE t[i].createdAt > Now - Month
     /\ category # NoCategory => CategoryOfRow(t, i) = category}

\* Lines 116-124: SELECT n.category, count(*) ... GROUP BY category.
CountQuery(t, userId, unread, category) ==
  LET m == CountMatches(t, userId, unread, category)
  IN  {[category |-> c, count |-> Cardinality({i \in m : CategoryOfRow(t, i) = c})] :
         c \in {CategoryOfRow(t, i) : i \in m}}

CacheLookupAlwaysMiss(p, call) ==
  req' = [req EXCEPT ![p] = [call EXCEPT !.pc = "gc_query"]]

\* Lines 107-108: the cache lookup; a hit is returned as it is.
CacheLookup(p, call) ==
  LET cachedCount == CacheGetUser(call.userId)
  IN  IF cachedCount.present
      THEN req' = [req EXCEPT ![p] =
                     [call EXCEPT !.pc = "done", !.result = cachedCount.counts]]
      ELSE req' = [req EXCEPT ![p] = [call EXCEPT !.pc = "gc_query"]]

GC_Start(p, userIds, categories) ==
  /\ req[p].pc \in Returned /\ enq[p].pc \in {"idle", "done"}
  /\ \E userId \in userIds, unread \in BOOLEAN, category \in categories :
       CacheLookup(p, [ReqIdle EXCEPT !.op = "count", !.userId = userId,
                                      !.unread = unread, !.category = category])
  /\ enq' = [enq EXCEPT ![p] = EnqIdle]
  /\ UNCHANGED <<settings, pending, rows, cache, hist>>

\* Lines 110-124: the aggregation over the store, on a miss.
GC_Query(p) ==
  /\ req[p].pc = "gc_query"
  /\ req' = [req EXCEPT ![p].pc = "gc_set",
                        ![p].result = CountQuery(rows, req[p].userId, req[p].unread,
                                                 req[p].category)]
  /\ UNCHANGED <<settings, pending, rows, cache, enq, hist>>

\* Lines 125-126: store the result in the cache and return it.
GC_Set(p) ==
  /\ req[p].pc = "gc_set"
  /\ cache' = CacheSetUser(cache, req[p].userId, req[p].result)
  /\ req' = [req EXCEPT ![p].pc = "done"]
  /\ hist' = [hist EXCEPT !.busted = @ \ {req[p].userId}]
  /\ UNCHANGED <<settings, pending, rows, enq>>

\* ------------------------------------------------ getUserNotifications
PageMatchesCursorInclusive(t, userId, unread, category, cursor) ==
  {i \in RowIds :
     /\ t[i].userId = userId
     /\ unread => ~t[i].viewed
     /\ category # NoCategory => CategoryOfRow(t, i) = category
     /\ IF cursor # NoCursor THEN t[i].createdAt <= cursor
        ELSE t[i].createdAt > Now - Month}

\* Lines 74-79: the WHERE clause of the page query.
PageMatches(t, userId, unread, category, cursor) ==
  {i \in RowIds :
     /\ t[i].userId = userId
     /\ unread => ~t[i].viewed
     /\ category # NoCategory => CategoryOfRow(t, i) = category
     /\ IF cursor # NoCursor THEN t[i].createdAt < cursor
        ELSE t[i].createdAt > Now - Month}

Min(a, b) == IF a < b THEN a ELSE b

\* Lines 81-89: ORDER BY un."createdAt" DESC LIMIT limit; rows of equal
\* createdAt come in any order.
Pages(t, m, limit) ==
  LET n      == Cardinality(m)
      sorted == {s \in [1..n -> m] :
                   /\ \A i, j \in 1..n : i # j => s[i] # s[j]
                   /\ \A i, j \in 1..n : i < j => t[s[i]].createdAt >= t[s[j]].createdAt}
  IN  {SubSeq(s, 1, Min(limit, n)) : s \in sorted}

\* Lines 74-91: the page query (populateNotificationDetails only fills in
\* the returned items).
GN_Start(p, userIds, categories, cursors, limits) ==
  /\ req[p].pc \in Returned /\ enq[p].pc \in {"idle", "done"}
  /\ \E userId \in userIds, unread \in BOOLEAN, category \in categories,
        cursor \in cursors, limit \in limits, count \in BOOLEAN :
       \E items \in Pages(rows, PageMatches(rows, userId, unread, category, cursor), limit) :
         req' = [req EXCEPT ![p] =
                   [ReqIdle EXCEPT !.op = "fetch", !.userId = userId, !.unread = unread,
                      !.category = category, !.cursor = cursor, !.limit = limit,
                      !.count = count, !.items = items,
                      !.pc = IF count THEN "gn_count" ELSE "done"]]
  /\ enq' = [enq EXCEPT ![p] = EnqIdle]
  /\ UNCHANGED <<settings, pending, rows, cache, hist>>

\* Line 93: count: await getUserNotificationCount({ userId, unread }).
GN_Count(p) ==
  /\ req[p].pc = "gn_count"
  /\ CacheLookup(p, [req[p] EXCEPT !.category = NoCategory])
  /\ UNCHANGED <<settings, pending, rows, cache, enq, hist>>

\* ------------------------------------------------ markNotificationsRead
BulkMatchesAnyUser(t, userId, category) ==
  {i \in RowIds :
     /\ ~t[i].viewed
     /\ category # NoCategory => CategoryOfRow(t, i) = category}

\* Lines 136-148: UPDATE ... SET viewed = true of the user's unviewed rows,
\* of one category when one is given.
BulkMatches(t, userId, category) ==
  {i \in RowIds :
     /\ t[i].userId = userId
     /\ ~t[i].viewed
     /\ category # NoCategory => CategoryOfRow(t, i) = category}

SingleMatchesAnyState(t, id) == {i \in RowIds : i = id}

\* Lines 154-158: UPDATE ... WHERE id = ${id} and viewed IS FALSE.
SingleMatches(t, id) == {i \in RowIds : i = id /\ ~t[i].viewed}

SetViewedAsMatch(t, m) == [i \in RowIds |-> [t[i] EXCEPT !.viewed = (i \in m)]]

\* SET viewed = true on the matched rows.
SetViewed(t, m) == [i \in RowIds |-> IF i \in m THEN [t[i] EXCEPT !.viewed = TRUE] ELSE t[i]]

\* Lines 135-148 and 154-161: the store update of either path.
MR_Start(p, userIds, categories, ids) ==
  /\ req[p].pc \in Returned /\ enq[p].pc \in {"idle", "done"}
  /\ \/ \E userId \in userIds, category \in categories :
          LET m == BulkMatches(rows, userId, category)
          IN  /\ rows' = SetViewed(rows, m)
              /\ req' = [req EXCEPT ![p] =
                           [ReqIdle EXCEPT !.op = "markRead", !.userId = userId,
                              !.all = TRUE, !.category = category,
                              !.pc = "mr_invalidate"]]
              /\ hist' = [hist EXCEPT !.bulk = @ \cup m]
     \/ \E userId \in userIds, id \in ids :
          LET m == SingleMatches(rows, id)
          IN  /\ rows' = SetViewed(rows, m)
              /\ req' = [req EXCEPT ![p] =
                           [ReqIdle EXCEPT !.op = "markRead", !.userId = userId,
                              !.id = id, !.rowCount = Cardinality(m),
                              !.pc = IF Cardinality(m) # 0 THEN "mr_category"
                                     ELSE "done"]]
              /\ hist' = [hist EXCEPT !.affected =
                            [i \in RowIds |-> IF i \in m THEN @[i] + 1 ELSE @[i]]]
  /\ enq' = [enq EXCEPT ![p] = EnqIdle]
  /\ UNCHANGED <<settings, pending, cache>>

\* Lines 150-152: clear the category, or bust the user's entry.
MR_Invalidate(p) ==
  /\ req[p].pc = "mr_invalidate"
  /\ cache' = IF req[p].category # NoCategory
              THEN CacheClearCategory(cache, req[p].userId, req[p].category)
              ELSE CacheBustUser(cache, req[p].userId)
  /\ req' = [req EXCEPT ![p].pc = "done"]
  /\ hist' = [hist EXCEPT !.busted = IF req[p].category # NoCategory THEN @
                                     ELSE @ \cup {req[p].userId}]
  /\ UNCHANGED <<settings, pending, rows, enq>>

\* Lines 151-152 when the cache call rejects: nothing catches it, so the
\* awaiting markNotificationsRead rejects too; the UPDATE stays applied.
MR_InvalidateFails(p) ==
  /\ req[p].pc = "mr_invalidate"
  /\ req' = [req EXCEPT ![p].pc = "failed"]
  /\ UNCHANGED <<settings, pending, rows, cache, enq, hist>>

\* Lines 162-167: look the row's category up.
MR_Category(p) ==
  /\ req[p].pc = "mr_category"
  /\ LET catData == IF req[p].id \in RowIds
                    THEN <<CategoryOfRow(rows, req[p].id)>> ELSE <<>>
     IN  req' = [req EXCEPT ![p].catData = catData,
                           ![p].pc = IF Len(catData) # 0 THEN "mr_decrement"
                                     ELSE "done"]
  /\ UNCHANGED <<settings, pending, rows, cache, enq, hist>>

\* Lines 168-169: decrement the cached count of that category.
MR_Decrement(p) ==
  /\ req[p].pc = "mr_decrement"
  /\ cache' = CacheDecrementUser(cache, req[p].userId, req[p].catData[1])
  /\ req' = [req EXCEPT ![p].pc = "done"]
  /\ hist' = [hist EXCEPT !.decrements[req[p].id] = @ + 1]
  /\ UNCHANGED <<settings, pending, rows, enq>>

\* Line 169 when decrementUser rejects: the call rejects after its UPDATE.
MR_DecrementFails(p) ==
  /\ req[p].pc = "mr_decrement"
  /\ req' = [req EXCEPT ![p].pc = "failed"]
  /\ UNCHANGED <<settings, pending, rows, cache, enq, hist>>

\* What markNotificationsRead has done so far: per row id, the single-row
\* calls that reported an affected row and the decrements issued; the rows the
\* bulk path has marked; the users whose cache entry was busted and not set since.
HistInit ==
  [affected |-> [i \in RowIds |-> 0], decrements |-> [i \in RowIds |-> 0],
   bulk |-> {}, busted |-> {}]

\* ------------------------------------------------------ specifications
InitEnqueue ==
  /\ settings = {}
  /\ pending = {}
  /\ rows = [i \in RowIds |-> [userId |-> 1, notificationId |-> 1,
                               viewed |-> FALSE, createdAt |-> Now]]
  /\ cache = [u \in Users |-> NoEntry]
  /\ enq = [p \in Procs |-> EnqIdle]
  /\ req = [p \in Procs |-> ReqIdle]
  /\ hist = HistInit

\* One handler, every target list up to MaxLen, one key.
NextEnqueue ==
  \/ CN_Start("a", {"k1"}, {pl \in Payloads : pl.details = "d1" /\ pl.category = "Comment"},
              Users \cup {NoUser}, SeqsUpTo(Users, MaxLen))
  \/ CN_Write("a")
  \/ CreateUserNotificationSetting
  \/ DeleteUserNotificationSetting

SpecEnqueue == InitEnqueue /\ [][NextEnqueue]_vars

\* Two handlers enqueueing at once, over two keys; the opt-outs are fixed.
InitEnqueue2 ==
  /\ settings = {<<2, "like">>}
  /\ pending = {}
  /\ rows = [i \in RowIds |-> [userId |-> 1, notificationId |-> 1,
                               viewed |-> FALSE, createdAt |-> Now]]
  /\ cache = [u \in Users |-> NoEntry]
  /\ enq = [p \in Procs |-> EnqIdle]
  /\ req = [p \in Procs |-> ReqIdle]
  /\ hist = HistInit

NextEnqueue2 ==
  \/ \E p \in Procs :
       CN_Start(p, Keys,
                {[type |-> "comment", category |-> "Comment", details |-> "d1"],
                 [type |-> "like", category |-> "Update", details |-> "d2"]},
                {NoUser, 1}, {<<>>, <<2>>})
  \/ \E p \in Procs : CN_Write(p)

SpecEnqueue2 == InitEnqueue2 /\ [][NextEnqueue2]_vars

\* ------------------------------------------------------------ claims
EnqStarts(p) == enq[p].pc \in {"idle", "done"} /\ enq'[p] # enq[p]
EnqWrites(p) == enq[p].pc = "filter" /\ enq'[p].pc = "done"
Dropped(p, u) == u \in enq[p].optOut \/ u \in enq'[p].blocked

\* C1: the row a createNotification call writes lists exactly the requested
\* targets that have no opt-out row for the notification's type (as read by
\* the call) and are not in the blocked set the call fetched.
C1_FilteredTargets ==
  [][\A p \in Procs :
       /\ EnqStarts(p) /\ enq'[p].pc = "filter" =>
            \A u \in Users :
              u \in enq'[p].optOut <=>
                (u \in Range(enq'[p].userIds) /\ <<u, enq'[p].type>> \in settings)
       /\ EnqWrites(p) /\ enq'[p].outcome = "inserted" =>
            \E r \in pending' \ pending :
              /\ pending' = pending \cup {r}
              /\ r.key = enq[p].key /\ r.type = enq[p].type
              /\ \A u \in Users :
                   u \in Range(r.users) <=>
                     (u \in Range(enq[p].userIds) /\ ~Dropped(p, u))]_vars

\* An opted-out target was dropped and a co-target kept in the written row.
C1_Witness ==
  \E r \in pending, u, v \in Users :
    /\ enq["a"].outcome = "inserted" /\ r.key = enq["a"].key
    /\ u \in Range(enq["a"].userIds) /\ u \in enq["a"].optOut
    /\ <<u, r.type>> \in settings
    /\ v \in Range(enq["a"].userIds) /\ r.users = <<v>>

\* C2: a call whose merged target list is empty, or whose targets are all
\* opted out or blocked, leaves PendingNotification unchanged and returns.
C2_NoTargetsNoWrite ==
  [][\A p \in Procs :
       /\ EnqStarts(p) /\ enq'[p].userIds = <<>> =>
            enq'[p].pc = "done" /\ enq'[p].outcome = "noop" /\ pending' = pending
       /\ EnqStarts(p) => pending' = pending
       /\ EnqWrites(p) /\ (\A u \in Range(enq[p].userIds) : Dropped(p, u)) =>
            enq'[p].outcome = "noop" /\ pending' = pending]_vars

\* A call with targets, all of them filtered out, has returned.
C2_Witness ==
  /\ enq["a"].pc = "done" /\ enq["a"].outcome = "noop"
  /\ enq["a"].userIds # <<>> /\ enq["a"].targets = <<>>
  /\ enq["a"].optOut # {} /\ enq["a"].blocked # {}
  /\ pending # {}

RowsOfKey(table, k) == {r \in table : r.key = k}

\* C3 as stated: after any two createNotification calls with the same key,
\* exactly one PendingNotification row with that key exists.
C3_ExactlyOneRow ==
  \A p, q \in Procs :
    (p # q /\ enq[p].pc = "done" /\ enq[q].pc = "done" /\ enq[p].key = enq[q].key)
      => Cardinality(RowsOfKey(pending, enq[p].key)) = 1

\* C3 amended: at most one row per key exists; exactly one once either of two
\* calls with that key has reached the insert; a row, once written, keeps the
\* content of the first write; the call that finds the key taken changes
\* nothing and returns.
C3_FirstWriteWins ==
  [][/\ \A k \in Keys : Cardinality(RowsOfKey(pending', k)) <= 1
     /\ pending \subseteq pending'
     /\ \A p, q \in Procs :
          (/\ p # q /\ enq'[p].pc = "done" /\ enq'[q].pc = "done"
           /\ enq'[p].key = enq'[q].key
           /\ enq'[p].outcome \in {"inserted", "conflict"})
            => Cardinality(RowsOfKey(pending', enq'[p].key)) = 1
     /\ \A p \in Procs :
          EnqWrites(p) /\ RowsOfKey(pending, enq[p].key) # {} =>
            pending' = pending /\ enq'[p].outcome \in {"noop", "conflict"}]_vars

\* Two calls with one key and different details: the first is in the queue,
\* the second was dropped.
C3_Witness ==
  \E p, q \in Procs, r \in pending :
    /\ enq[p].pc = "done" /\ enq[p].outcome = "inserted"
    /\ enq[q].pc = "done" /\ enq[q].outcome = "conflict"
    /\ enq[p].key = enq[q].key /\ r.key = enq[p].key
    /\ enq[p].details # enq[q].details
    /\ r.details = JsonStringify(enq[p].details) /\ r.users = enq[p].targets

NoDuplicates(s) == \A i, j \in 1..Len(s) : i # j => s[i] # s[j]

\* C4: the `users` list of every written PendingNotification row holds each
\* user id at most once.
C4_UsersDeduplicated == \A r \in pending : NoDuplicates(r.users)

\* One handler, every operation of the read side with every argument.
Init ==
  /\ settings = {}
  /\ pending = {}
  /\ rows \in FreshTables
  /\ cache = [u \in Users |-> NoEntry]
  /\ enq = [p \in Procs |-> EnqIdle]
  /\ req = [p \in Procs |-> ReqIdle]
  /\ hist = HistInit

AnyCategory == Categories \cup {NoCategory}

Next ==
  \/ GC_Start("a", Users, AnyCategory)
  \/ GC_Query("a")
  \/ GC_Set("a")
  \/ GN_Start("a", Users, {NoCategory}, {NoCursor}, {DEFAULT_PAGE_SIZE})
  \/ GN_Count("a")
  \/ MR_Start("a", Users, AnyCategory, 1..(MaxRow + 1))
  \/ MR_Invalidate("a")
  \/ MR_Category("a")
  \/ MR_Decrement("a")

Spec == Init /\ [][Next]_vars

\* Two handlers serving user 1 at once: "b" marks notifications read while "a"
\* runs any operation of the service; every row is user 1's.
InitConc ==
  /\ settings = {}
  /\ pending = {}
  /\ rows \in {t \in FreshTables : \A i \in RowIds : t[i].userId = 1}
  /\ cache = [u \in Users |-> NoEntry]
  /\ enq = [p \in Procs |-> EnqIdle]
  /\ req = [p \in Procs |-> ReqIdle]
  /\ hist = HistInit

NextConc ==
  \/ GC_Start("a", {1}, AnyCategory)
  \/ GC_Query("a")
  \/ GC_Set("a")
  \/ GN_Start("a", {1}, {NoCategory}, {NoCursor}, {DEFAULT_PAGE_SIZE})
  \/ GN_Count("a")
  \/ CN_Start("a", {"k1"}, {[type |-> "comment", category |-> "Comment", details |-> "d1"]},
              {1}, {<<>>})
  \/ CN_Write("a")
  \/ \E p \in Procs :
       \/ MR_Start(p, {1}, AnyCategory, 1..(MaxRow + 1))
       \/ MR_Invalidate(p)
       \/ MR_Category(p)
       \/ MR_Decrement(p)

SpecConc == InitConc /\ [][NextConc]_vars

\* ----------------------------------------------------- read-side claims
ReqStarts(p) == req[p].pc \in Returned /\ req'[p] # req[p]

\* C5: `viewed` of a UserNotification row only ever goes from false to true,
\* once; a row that is viewed is never changed again by any operation.
C5_ViewedMonotonic ==
  [][\A i \in RowIds :
       \/ rows'[i] = rows[i]
       \/ ~rows[i].viewed /\ rows'[i] = [rows[i] EXCEPT !.viewed = TRUE]]_vars

\* A second mark-read of a row found it viewed and affected nothing, while
\* other operations of the layer have run.
C5_Witness ==
  \E p, q \in Procs :
    /\ p # q
    /\ req[p].op = "markRead" /\ ~req[p].all /\ req[p].pc = "done"
    /\ req[p].id \in RowIds /\ req[p].rowCount = 0
    /\ rows[req[p].id].viewed /\ hist.affected[req[p].id] = 1
    /\ enq[q].outcome = "inserted"
    /\ cache[1].present

\* The aggregation, category by category.
DirectCounts(t, userId, unread, category) ==
  LET n(c) == Cardinality({i \in RowIds :
                /\ t[i].userId = userId
                /\ Notification[t[i].notificationId].category = c
                /\ (unread /\ ~t[i].viewed) \/ (~unread /\ Now - t[i].createdAt < Month)})
  IN  {[category |-> c, count |-> n(c)] :
         c \in {d \in Categories : n(d) > 0 /\ (category = NoCategory \/ d = category)}}

\* C6: whatever the cache holds, getUserNotificationCount returns what the
\* aggregation over the store gives for the call's own filters.
C6_CacheTransparent ==
  \A p \in Procs :
    (req[p].op = "count" /\ req[p].pc = "done") =>
      req[p].result = DirectCounts(rows, req[p].userId, req[p].unread, req[p].category)

\* C7: a bust empties the user's entry; a count call that finds no entry
\* aggregates over the store with the call's filters, stores that mapping and
\* returns it.
C7_RecomputeAfterBust ==
  [][\A p \in Procs :
       LET u == req[p].userId
       IN  /\ (req[p].pc = "mr_invalidate" /\ req'[p].pc = "done"
                /\ req[p].category = NoCategory) => ~cache'[u].present
           /\ (ReqStarts(p) /\ req'[p].op = "count"
                /\ ~cache[req'[p].userId].present) => req'[p].pc = "gc_query"
           /\ (req[p].pc = "gc_query" /\ req'[p].pc = "gc_set") =>
                req'[p].result = DirectCounts(rows, u, req[p].unread, req[p].category)
           /\ (req[p].pc = "gc_set" /\ req'[p].pc = "done") =>
                /\ req'[p].result = req[p].result
                /\ req'[p].result =
                     DirectCounts(rows, u, req[p].unread, req[p].category)
                /\ cache'[u] = [present |-> TRUE, counts |-> req'[p].result]
                /\ \A v \in Users \ {u} : cache'[v] = cache[v]]_vars

\* After a bust that marked rows of the user, a count over the last month
\* has recomputed and cached a non-empty mapping.
C7_Witness ==
  \E p \in Procs, i \in RowIds :
    /\ req[p].op = "count" /\ req[p].pc = "done" /\ ~req[p].unread
    /\ i \in hist.bulk /\ rows[i].userId = req[p].userId
    /\ req[p].userId \notin hist.busted
    /\ req[p].result # {}
    /\ cache[req[p].userId] = [present |-> TRUE, counts |-> req[p].result]
    /\ \E j \in RowIds : rows[j].userId = req[p].userId /\ rows[j].createdAt <= Now - Month

\* C8: markNotificationsRead({id, userId}) of a row that is viewed or does
\* not exist reports zero rows, changes no row, and issues no cache write.
C8_NoOpOnViewed ==
  [][\A p \in Procs :
       (/\ ReqStarts(p) /\ req'[p].op = "markRead" /\ ~req'[p].all
        /\ (req'[p].id \notin RowIds \/ rows[req'[p].id].viewed))
         => /\ req'[p].rowCount = 0 /\ req'[p].pc = "done"
            /\ rows' = rows /\ cache' = cache /\ hist' = hist]_vars

\* A single-row call on a viewed row has returned zero rows while the
\* caller's entry holds a count for the row's category.
C8_Witness ==
  \E p \in Procs :
    /\ req[p].op = "markRead" /\ ~req[p].all /\ req[p].pc = "done"
    /\ req[p].rowCount = 0 /\ req[p].id \in RowIds /\ rows[req[p].id].viewed
    /\ cache[req[p].userId].present
    /\ \E e \in cache[req[p].userId].counts :
         e.category = CategoryOfRow(rows, req[p].id) /\ e.count > 0

InFlightSingle(i) ==
  \E p \in Procs : req[p].pc \in {"mr_category", "mr_decrement"} /\ req[p].id = i

\* C9: of the single-row calls on one row, run in any interleaving, exactly
\* one reports an affected row and exactly one decrement is issued.
C9_OneDecrement ==
  \A i \in RowIds :
    /\ hist.affected[i] <= 1
    /\ hist.decrements[i] <= hist.affected[i]
    /\ ~InFlightSingle(i) => hist.decrements[i] = hist.affected[i]
    /\ (rows[i].viewed /\ i \notin hist.bulk) => hist.affected[i] = 1
    /\ \A p, q \in Procs :
         (/\ p # q /\ req[p].op = "markRead" /\ req[q].op = "markRead"
          /\ ~req[p].all /\ ~req[q].all /\ req[p].id = i /\ req[q].id = i)
           => req[p].rowCount + req[q].rowCount <= 1

\* Handler b's call on the row came back with zero rows while handler a's
\* call on the same row, which was affected, is still before its decrement.
C9_Witness ==
  \E i \in RowIds :
    /\ req["a"].op = "markRead" /\ ~req["a"].all /\ req["a"].id = i
    /\ req["a"].pc = "mr_decrement" /\ req["a"].rowCount = 1
    /\ req["b"].op = "markRead" /\ ~req["b"].all /\ req["b"].id = i
    /\ req["b"].pc = "done" /\ req["b"].rowCount = 0
    /\ hist.affected[i] = 1 /\ hist.decrements[i] = 0
    /\ cache[1].present

\* C10: the bulk path with a category marks exactly the user's unviewed rows
\* of that category and then removes exactly that category from the user's
\* cached counts.
C10_BulkCategoryFrame ==
  [][\A p \in Procs :
       /\ (ReqStarts(p) /\ req'[p].op = "markRead" /\ req'[p].all
            /\ req'[p].category # NoCategory) =>
             /\ \A i \in RowIds :
                  rows'[i] =
                    IF /\ rows[i].userId = req'[p].userId
                       /\ Notification[rows[i].notificationId].category = req'[p].category
                    THEN [rows[i] EXCEPT !.viewed = TRUE]
                    ELSE rows[i]
             /\ cache' = cache
             /\ req'[p].pc = "mr_invalidate"
       /\ (req[p].pc = "mr_invalidate" /\ req'[p].pc = "done"
            /\ req[p].category # NoCategory) =>
             /\ rows' = rows
             /\ \A v \in Users \ {req[p].userId} : cache'[v] = cache[v]
             /\ cache'[req[p].userId].present = cache[req[p].userId].present
             /\ \A e \in cache[req[p].userId].counts :
                  e \in cache'[req[p].userId].counts <=> e.category # req[p].category
             /\ cache'[req[p].userId].counts \subseteq cache[req[p].userId].counts]_vars

\* A bulk call with a category has finished: the user's rows of the category
\* are viewed, another row is not, the category is gone from the entry, the
\* user's other category and the other user's entry are still there.
C10_Witness ==
  \E p \in Procs, i, j \in RowIds, v \in Users :
    /\ req[p].op = "markRead" /\ req[p].all /\ req[p].pc = "done"
    /\ req[p].category # NoCategory
    /\ i \in hist.bulk /\ rows[i].userId = req[p].userId
    /\ CategoryOfRow(rows, i) = req[p].category
    /\ ~rows[j].viewed
    /\ cache[req[p].userId].present
    /\ cache[req[p].userId].counts # {}
    /\ \A e \in cache[req[p].userId].counts : e.category # req[p].category
    /\ v # req[p].userId /\ cache[v].present

\* ------------------------------------------------ getUserNotifications
\* A cursor is absent, or a timestamp up to one past the newest row.
Cursors == {NoCursor} \cup (0..(MaxTime + 1))

\* One handler fetching user 1's pages with every filter, cursor and limit,
\* between mark-read calls; the rows are anybody's.
NextFetch ==
  \/ GN_Start("a", {1}, AnyCategory, Cursors, {1, DEFAULT_PAGE_SIZE})
  \/ GN_Count("a")
  \/ GC_Query("a")
  \/ GC_Set("a")
  \/ MR_Start("a", {1}, {NoCategory}, RowIds)
  \/ MR_Invalidate("a")
  \/ MR_Category("a")
  \/ MR_Decrement("a")

SpecFetch == Init /\ [][NextFetch]_vars

\* ------------------------------------------------ an unreliable Count Cache
\* One handler marking notifications read and counting them while any call
\* to the Count Cache made by markNotificationsRead may reject.
NextCacheFail ==
  \/ GC_Start("a", Users, {NoCategory})
  \/ GC_Query("a")
  \/ GC_Set("a")
  \/ MR_Start("a", Users, AnyCategory, RowIds)
  \/ MR_Invalidate("a")
  \/ MR_InvalidateFails("a")
  \/ MR_Category("a")
  \/ MR_Decrement("a")
  \/ MR_DecrementFails("a")

SpecCacheFail == Init /\ [][NextCacheFail]_vars

\* ------------------------------------------------ one count, one mark-read
\* Handler "a" makes one getUserNotificationCount call for user 1, which
\* misses the empty cache, while handler "b" makes one markNotificationsRead
\* call on user 1's rows; the steps interleave in every order.
NextRace ==
  \/ req["a"].pc = "idle" /\ GC_Start("a", {1}, AnyCategory)
  \/ GC_Query("a")
  \/ GC_Set("a")
  \/ req["b"].pc = "idle" /\ MR_Start("b", {1}, AnyCategory, RowIds)
  \/ MR_Invalidate("b")
  \/ MR_Category("b")
  \/ MR_Decrement("b")

SpecRace == InitConc /\ [][NextRace]_vars

FetchSteps(p) == req'[p] # req[p] /\ req'[p].op = "fetch"

\* C11 as stated: no step of a getUserNotifications call, with or without
\* count, changes the UserNotification rows, the pending queue or the Count
\* Cache.
C11_ReadOnly ==
  [][\A p \in Procs :
       FetchSteps(p) => rows' = rows /\ pending' = pending /\ cache' = cache]_vars

\* C11 amended: a getUserNotifications call never changes the rows, the
\* pending queue or the opt-outs; it changes the Count Cache only with
\* count = true and no entry for the user, and then only by storing the
\* counts it returns as that user's entry.
C11_ReadOnlyButCacheFill ==
  [][\A p \in Procs :
       FetchSteps(p) =>
         /\ rows' = rows /\ pending' = pending /\ settings' = settings
         /\ cache' # cache =>
              /\ req[p].count /\ req[p].pc = "gc_set" /\ req'[p].pc = "done"
              /\ ~cache[req[p].userId].present
              /\ cache'[req[p].userId] = [present |-> TRUE, counts |-> req'[p].result]
              /\ \A v \in Users \ {req[p].userId} : cache'[v] = cache[v]]_vars

\* A fetch with count has returned a page and the counts, which are now the
\* user's cache entry, after an earlier bust.
C11_Witness ==
  \E p \in Procs :
    /\ req[p].op = "fetch" /\ req[p].count /\ req[p].pc = "done"
    /\ req[p].items # <<>> /\ req[p].result # {}
    /\ cache[req[p].userId] = [present |-> TRUE, counts |-> req[p].result]
    /\ hist.bulk # {} /\ req[p].userId \notin hist.busted

\* C12: a page holds only rows of the requesting user, newest first, at most
\* `limit` of them; of the last month without a cursor, strictly older than
\* the cursor with one; unviewed only with `unread`; of the category when
\* one is given.
C12_PageContents ==
  \A p \in Procs :
    req[p].op = "fetch" =>
      LET it == req[p].items
      IN  /\ Len(it) <= req[p].limit
          /\ \A j, k \in 1..Len(it) :
               j < k => /\ it[j] # it[k]
                        /\ rows[it[j]].createdAt >= rows[it[k]].createdAt
          /\ \A k \in 1..Len(it) :
               LET r == rows[it[k]]
               IN  /\ it[k] \in RowIds
                   /\ r.userId = req[p].userId
                   /\ req[p].unread => ~r.viewed
                   /\ req[p].category # NoCategory =>
                        Notification[r.notificationId].category = req[p].category
                   /\ req[p].cursor = NoCursor => Now - r.createdAt < Month
                   /\ req[p].cursor # NoCursor => r.createdAt < req[p].cursor

\* A page behind a cursor holds a row of the last month before a row older
\* than a month.
C12_Witness ==
  \E p \in Procs :
    /\ req[p].op = "fetch" /\ req[p].pc = "done" /\ req[p].cursor # NoCursor
    /\ Len(req[p].items) = 2
    /\ rows[req[p].items[1]].createdAt > rows[req[p].items[2]].createdAt
    /\ rows[req[p].items[2]].createdAt <= Now - Month

\* C13: a Count Cache call that fails during markNotificationsRead, on the
\* bulk or the single-row path, does not fail the call: no
\* markNotificationsRead call ends rejected.
C13_CacheFailureSwallowed ==
  \A p \in Procs : req[p].op = "markRead" => req[p].pc # "failed"

\* C14: markNotificationsRead called by a user changes the viewed flag only
\* of rows that user owns, and decrements that user's cached count only for
\* a row that user owns.
C14_OwnRowsOnly ==
  [][\A p \in Procs :
       /\ (ReqStarts(p) /\ req'[p].op = "markRead") =>
            \A i \in RowIds :
              rows'[i] # rows[i] => rows[i].userId = req'[p].userId
       /\ (req[p].pc = "mr_decrement" /\ req'[p].pc = "done") =>
            rows[req[p].id].userId = req[p].userId]_vars

CachedCount(entry, c) ==
  IF \E e \in entry.counts : e.category = c
  THEN (CHOOSE e \in entry.counts : e.category = c).count
  ELSE 0

\* C15: once a count call that missed the cache and a concurrent
\* markNotificationsRead call on the same user's rows have both finished, a
\* cache entry left for the user holds, per category, the number of the
\* user's rows the count call's filter matches in the store.
C15_NoStaleWriteBack ==
  (/\ req["a"].op = "count" /\ req["a"].pc = "done"
   /\ req["b"].op = "markRead" /\ req["b"].pc = "done"
   /\ cache[req["a"].userId].present) =>
    \A c \in Categories :
      CachedCount(cache[req["a"].userId], c) =
        Cardinality({i \in CountMatches(rows, req["a"].userId, req["a"].unread,
                                        req["a"].category) :
                       CategoryOfRow(rows, i) = c})

====
